---- MODULE Spec2Model ----
(***************************************************************************)
(* A model of the discovery-to-enrichment pipeline of academic-primers:    *)
(*   backend/pdf_fetcher.py    enrich_papers_with_pdfs and its helpers     *)
(*   backend/quality_filter.py deduplicate, score_paper, filter_and_rank   *)
(*   backend/paper_search.py   search_semantic_scholar, search_pubmed,     *)
(*                             search_all                                  *)
(*   backend/main.py           get_papers, generate, _run_pipeline         *)
(*                                                                         *)
(* Python strings are sequences of one-character strings, so that lower(), *)
(* re.sub, len() and the substring test are computed and not assumed.      *)
(* Python's None, for a string-valued field, is the value None below; it   *)
(* is no string of the model (every character is one character long).      *)
(***************************************************************************)
EXTENDS Integers, Sequences, FiniteSets, TLC

VARIABLES
    papers,      \* the list handed to the operation; its records are mutated in place
    pc,          \* the position of the operation under way
    email,       \* os.environ["UNPAYWALL_EMAIL"]
    lookups,     \* enrich: index -> result of the Unpaywall lookup (Pending until it completes)
    results,     \* enrich: index -> result of _download_and_extract (Pending until it completes)
    enriched,    \* enrich: the first list returned
    failed,      \* enrich: the second list returned
    top_n,       \* filter_and_rank: its top_n argument
    required,    \* filter_and_rank: its required_phrases argument
    out,         \* the list returned by deduplicate / filter_and_rank
    out2,        \* the list returned by a second deduplicate over out
    permuted,    \* the same records as papers, in another order
    queries,     \* search_all: its queries argument
    field,       \* search_all: its field argument
    has_ss_key,  \* search_all: SEMANTIC_SCHOLAR_API_KEY is set
    has_ncbi_key, \* search_all: NCBI_API_KEY is set
    qi,          \* search_all: the position of the loop under way in queries
    attempt,     \* search_semantic_scholar: the attempt of its loop
    inflight,    \* the number of backend requests sent and not yet answered
    calls,       \* search_all: the sleeps and backend calls made so far, with their outcomes
    reqlog,      \* the requests, responses and sleeps of the backend call under way
    result,      \* the list returned by the last backend call
    topic,       \* the request: PrimerRequest.topic
    selected,    \* the request: PrimerRequest.selected_papers (<<>> for None and for [])
    endpoint,    \* the route that serves the request
    events       \* what the caller has received: SSE events, or the HTTP response

evars == <<email, lookups, results, enriched, failed>>
rvars == <<top_n, required, out, out2, permuted>>
svars == <<queries, field, has_ss_key, has_ncbi_key, qi, attempt, inflight, calls,
           reqlog, result>>
pvars == <<topic, selected, endpoint, events>>

vars == <<papers, pc, email, lookups, results, enriched, failed, top_n, required, out, out2,
          permuted, queries, field, has_ss_key, has_ncbi_key, qi, attempt, inflight, calls,
          reqlog, result, topic, selected, endpoint, events>>

-----------------------------------------------------------------------------
(* Python values *)

None == <<"None">>
Exc == <<"Exception">>
Pending == <<"Pending">>

\* bool(s) of an Optional[str]
Truthy(s) == s /= None /\ s /= <<>>

\* the increasing enumeration of a finite set of integers: sorted(S)
RECURSIVE SortedSeq(_)
SortedSeq(S) ==
    IF S = {} THEN <<>>
    ELSE LET m == CHOOSE x \in S : \A y \in S : x <= y
         IN  <<m>> \o SortedSeq(S \ {m})

\* models.Paper; id stands for the identity of the Python object
MkPaper(i, title, abstract, doi, cites, oa, url) ==
    [id |-> i, title |-> title, year |-> 2021, abstract |-> abstract,
     citation_count |-> cites, influential_citation_count |-> 0,
     is_open_access |-> oa, pdf_url |-> url, venue |-> None, doi |-> doi,
     authors |-> <<>>, semantic_scholar_id |-> None, url |-> None,
     source |-> "semantic_scholar", quality_score |-> 0, pdf_text |-> None]

Ids(ps) == [i \in DOMAIN ps |-> ps[i].id]

\* the variables of search_all and of the request handlers, while neither runs
NoSearch ==
    /\ queries = <<>>
    /\ field = <<>>
    /\ has_ss_key = FALSE
    /\ has_ncbi_key = FALSE
    /\ qi = 0
    /\ attempt = 0
    /\ inflight = 0
    /\ calls = <<>>
    /\ reqlog = <<>>
    /\ result = <<>>

NoRequest ==
    /\ topic = <<>>
    /\ selected = <<>>
    /\ endpoint = "none"
    /\ events = <<>>

-----------------------------------------------------------------------------
(* backend/pdf_fetcher.py *)

MaxEnrichInput == 3

PdfUrl == <<"u">>
FoundUrl == <<"w">>
PdfText == <<"t">>
Doi1 == <<"1", "0", ".", "1", "/", "x">>

\* candidates = [p for p in papers if not p.pdf_url and p.doi]
UnpaywallCandidates(ps) ==
    {i \in DOMAIN ps : ~Truthy(ps[i].pdf_url) /\ Truthy(ps[i].doi)}

ApplyLookupsFlagsAll(ps, lk) ==
    [i \in DOMAIN ps |->
        IF i \in DOMAIN lk /\ lk[i] /= Exc /\ Truthy(lk[i])
        THEN [ps[i] EXCEPT !.pdf_url = lk[i], !.is_open_access = TRUE]
        ELSE IF i \in DOMAIN lk THEN [ps[i] EXCEPT !.is_open_access = TRUE]
        ELSE ps[i]]

\* the loop over zip(candidates, results): a found URL sets pdf_url and is_open_access
ApplyLookups(ps, lk) ==
    [i \in DOMAIN ps |->
        IF i \in DOMAIN lk /\ lk[i] /= Exc /\ Truthy(lk[i])
        THEN [ps[i] EXCEPT !.pdf_url = lk[i], !.is_open_access = TRUE]
        ELSE ps[i]]

\* oa = [(i, p) for i, p in enumerate(papers) if p.is_open_access and p.pdf_url]
OaIndices(ps) == {i \in DOMAIN ps : ps[i].is_open_access /\ Truthy(ps[i].pdf_url)}

IsFailureTruthyOnly(r) == ~Truthy(r)

\* isinstance(result, Exception) or not result
IsFailure(r) == r = Exc \/ ~Truthy(r)

\* the mutants of Partition
PartitionKeepsFailed(ps, res) ==
    LET oa == SortedSeq(DOMAIN res)
        good == SelectSeq(oa, LAMBDA i : ~IsFailure(res[i]))
        bad == SelectSeq(oa, LAMBDA i : IsFailure(res[i]))
        ps2 == [i \in DOMAIN ps |->
                  IF i \in DOMAIN res /\ ~IsFailure(res[i])
                  THEN [ps[i] EXCEPT !.pdf_text = res[i]] ELSE ps[i]]
        non == SortedSeq(DOMAIN ps \ DOMAIN res)
        enr == [k \in 1..Len(non) |-> ps2[non[k]]] \o [k \in 1..Len(good) |-> ps2[good[k]]]
        fl == [k \in 1..Len(bad) |-> ps2[bad[k]]]
    IN  IF enr = <<>> THEN [papers |-> ps2, enriched |-> ps2, failed |-> fl]
        ELSE [papers |-> ps2, enriched |-> enr, failed |-> fl]

PartitionNoFallback(ps, res) ==
    LET oa == SortedSeq(DOMAIN res)
        good == SelectSeq(oa, LAMBDA i : ~IsFailure(res[i]))
        bad == SelectSeq(oa, LAMBDA i : IsFailure(res[i]))
        ps2 == [i \in DOMAIN ps |->
                  IF i \in DOMAIN res /\ ~IsFailure(res[i])
                  THEN [ps[i] EXCEPT !.pdf_text = res[i]] ELSE ps[i]]
        non == SortedSeq(DOMAIN ps \ DOMAIN res)
        enr == [k \in 1..Len(non) |-> ps2[non[k]]] \o [k \in 1..Len(good) |-> ps2[good[k]]]
        fl == [k \in 1..Len(bad) |-> ps2[bad[k]]]
    IN  [papers |-> ps2, enriched |-> enr, failed |-> fl]

PartitionUnsortedPassThrough(ps, res) ==
    LET oa == SortedSeq(DOMAIN res)
        good == SelectSeq(oa, LAMBDA i : ~IsFailure(res[i]))
        bad == SelectSeq(oa, LAMBDA i : IsFailure(res[i]))
        ps2 == [i \in DOMAIN ps |->
                  IF i \in DOMAIN res /\ ~IsFailure(res[i])
                  THEN [ps[i] EXCEPT !.pdf_text = res[i]] ELSE ps[i]]
        non == SortedSeq(DOMAIN ps \ DOMAIN res)
        enr == [k \in 1..Len(non) |-> ps2[non[Len(non) + 1 - k]]]
                 \o [k \in 1..Len(good) |-> ps2[good[k]]]
        fl == [k \in 1..Len(bad) |-> ps2[bad[k]]]
    IN  IF enr = <<>> THEN [papers |-> ps2, enriched |-> ps2, failed |-> <<>>]
        ELSE [papers |-> ps2, enriched |-> enr, failed |-> fl]

\* enrich_papers_with_pdfs from the end of the gather to its return; res maps
\* each index of oa to its result, so zip(oa, results) is DOMAIN res in increasing order
Partition(ps, res) ==
    LET oa == SortedSeq(DOMAIN res)
        good == SelectSeq(oa, LAMBDA i : ~IsFailure(res[i]))
        bad == SelectSeq(oa, LAMBDA i : IsFailure(res[i]))
        \* paper.pdf_text = result
        ps2 == [i \in DOMAIN ps |->
                  IF i \in DOMAIN res /\ ~IsFailure(res[i])
                  THEN [ps[i] EXCEPT !.pdf_text = res[i]] ELSE ps[i]]
        \* enriched = [papers[i] for i in sorted(non_oa_indices)], then the appends
        non == SortedSeq(DOMAIN ps \ DOMAIN res)
        enr == [k \in 1..Len(non) |-> ps2[non[k]]] \o [k \in 1..Len(good) |-> ps2[good[k]]]
        fl == [k \in 1..Len(bad) |-> ps2[bad[k]]]
    IN  \* if not enriched: return list(papers), []
        IF enr = <<>> THEN [papers |-> ps2, enriched |-> ps2, failed |-> <<>>]
        ELSE [papers |-> ps2, enriched |-> enr, failed |-> fl]

EnrichPapers ==
    {MkPaper(0, <<"a">>, None, doi, 0, oa, url) :
        doi \in {None, Doi1}, oa \in BOOLEAN, url \in {None, PdfUrl}}

SeqsUpTo(S, n) == UNION {[1..k -> S] : k \in 0..n}

WithIds(ps) == [i \in DOMAIN ps |-> [ps[i] EXCEPT !.id = i]]

EnrichInit ==
    /\ papers \in {WithIds(ps) : ps \in SeqsUpTo(EnrichPapers, MaxEnrichInput)}
    /\ email \in {<<>>, <<"e">>}
    /\ pc = "enrich"
    /\ lookups = <<>>
    /\ results = <<>>
    /\ enriched = <<>>
    /\ failed = <<>>
    /\ top_n = 0
    /\ required = None
    /\ out = <<>>
    /\ out2 = <<>>
    /\ permuted = <<>>
    /\ NoSearch
    /\ NoRequest

\* what follows the Unpaywall step: lines 138-148, up to the gather of the downloads
AfterLookups(ps) ==
    IF OaIndices(ps) = {}
    THEN /\ pc' = "enrich_done"
         /\ enriched' = ps
         /\ failed' = <<>>
         /\ results' = <<>>
    ELSE /\ pc' = "downloads"
         /\ results' = [i \in OaIndices(ps) |-> Pending]
         /\ UNCHANGED <<enriched, failed>>

\* enrich_papers_with_pdfs, from its call to its first await
EnrichStart ==
    /\ pc = "enrich"
    /\ IF Truthy(email) /\ UnpaywallCandidates(papers) /= {}
       THEN /\ pc' = "lookups"
            /\ lookups' = [i \in UnpaywallCandidates(papers) |-> Pending]
            /\ UNCHANGED <<results, enriched, failed>>
       ELSE /\ AfterLookups(papers)
            /\ UNCHANGED lookups
    /\ UNCHANGED <<papers, email, top_n, required, out, out2>>
    /\ UNCHANGED <<permuted, svars, pvars>>

\* one _unpaywall_pdf_url of the gather completes: a URL, None, or an exception
LookupCompletes(i, r) ==
    /\ pc = "lookups"
    /\ i \in DOMAIN lookups
    /\ lookups[i] = Pending
    /\ lookups' = [lookups EXCEPT ![i] = r]
    /\ UNCHANGED <<papers, pc, email, results, enriched, failed, top_n, required, out, out2>>
    /\ UNCHANGED <<permuted, svars, pvars>>

\* the gather of the lookups returns: lines 111-119, then 138-148
LookupsDone ==
    /\ pc = "lookups"
    /\ \A i \in DOMAIN lookups : lookups[i] /= Pending
    /\ papers' = ApplyLookups(papers, lookups)
    /\ AfterLookups(papers')
    /\ UNCHANGED <<email, lookups, top_n, required, out, out2>>
    /\ UNCHANGED <<permuted, svars, pvars>>

\* one _download_and_extract of the gather completes: text, None, or an exception
DownloadCompletes(i, r) ==
    /\ pc = "downloads"
    /\ i \in DOMAIN results
    /\ results[i] = Pending
    /\ results' = [results EXCEPT ![i] = r]
    /\ UNCHANGED <<papers, pc, email, lookups, enriched, failed, top_n, required, out, out2>>
    /\ UNCHANGED <<permuted, svars, pvars>>

\* the gather of the downloads returns: lines 150-166
DownloadsDone ==
    /\ pc = "downloads"
    /\ \A i \in DOMAIN results : results[i] /= Pending
    /\ LET p == Partition(papers, results)
       IN  /\ papers' = p.papers
           /\ enriched' = p.enriched
           /\ failed' = p.failed
    /\ pc' = "enrich_done"
    /\ UNCHANGED <<email, lookups, results, top_n, required, out, out2>>
    /\ UNCHANGED <<permuted, svars, pvars>>

EnrichNext ==
    \/ EnrichStart
    \/ \E i \in DOMAIN lookups, r \in {None, FoundUrl, Exc} : LookupCompletes(i, r)
    \/ LookupsDone
    \/ \E i \in DOMAIN results, r \in {None, PdfText, Exc} : DownloadCompletes(i, r)
    \/ DownloadsDone

SpecEnrich == EnrichInit /\ [][EnrichNext]_vars

-----------------------------------------------------------------------------
(* backend/quality_filter.py *)

MaxDedupInput == 3

\* str.lower(), on the letters the model uses
LowerChar(c) ==
    CASE c = "A" -> "a"
      [] c = "B" -> "b"
      [] c = "G" -> "g"
      [] c = "N" -> "n"
      [] c = "X" -> "x"
      [] OTHER -> c

Lower(s) == [i \in DOMAIN s |-> LowerChar(s[i])]

\* \w of Python's re: letters, digits and the underscore
IsWordChar(c) ==
    c \in {"a", "b", "g", "n", "x", "A", "B", "G", "N", "X", "0", "1", "_"}

\* re.sub(r"\W+", "", title.lower())
NormalizeTitle(title) == SelectSeq(Lower(title), IsWordChar)

DedupStart == [seen_dois |-> {}, seen_titles |-> {}, unique |-> <<>>]

\* the mutants of DedupStep
DedupStepNoDoiGuard(st, paper) ==
    LET norm_title == NormalizeTitle(paper.title)
    IN  IF paper.doi \in st.seen_dois THEN st
        ELSE IF norm_title \in st.seen_titles THEN st
        ELSE [seen_dois |-> st.seen_dois \cup {paper.doi},
              seen_titles |-> st.seen_titles \cup {norm_title},
              unique |-> Append(st.unique, paper)]

DedupStepLowerDoi(st, paper) ==
    LET norm_title == NormalizeTitle(paper.title)
    IN  IF Truthy(paper.doi) /\ Lower(paper.doi) \in st.seen_dois THEN st
        ELSE IF norm_title \in st.seen_titles THEN st
        ELSE [seen_dois |-> IF Truthy(paper.doi)
                            THEN st.seen_dois \cup {Lower(paper.doi)}
                            ELSE st.seen_dois,
              seen_titles |-> st.seen_titles \cup {norm_title},
              unique |-> Append(st.unique, paper)]

\* one iteration of the loop of deduplicate
DedupStep(st, paper) ==
    LET norm_title == NormalizeTitle(paper.title)
    IN  IF Truthy(paper.doi) /\ paper.doi \in st.seen_dois THEN st
        ELSE IF norm_title \in st.seen_titles THEN st
        ELSE [seen_dois |-> IF Truthy(paper.doi)
                            THEN st.seen_dois \cup {paper.doi}
                            ELSE st.seen_dois,
              seen_titles |-> st.seen_titles \cup {norm_title},
              unique |-> Append(st.unique, paper)]

RECURSIVE DedupLoop(_, _, _)
DedupLoop(st, ps, i) ==
    IF i > Len(ps) THEN st ELSE DedupLoop(DedupStep(st, ps[i]), ps, i + 1)

\* the mutant of Deduplicate: the duplicates are removed from the list while it
\* is iterated, so the record after a removed one is never examined
RECURSIVE RemoveWhileIterating(_, _, _)
RemoveWhileIterating(st, ps, i) ==
    IF i > Len(ps) THEN ps
    ELSE LET nxt == DedupStep(st, ps[i])
         IN  IF nxt = st
             THEN RemoveWhileIterating(st, SubSeq(ps, 1, i - 1) \o SubSeq(ps, i + 1, Len(ps)),
                                       i + 1)
             ELSE RemoveWhileIterating(nxt, ps, i + 1)

DeduplicateInPlace(ps) == RemoveWhileIterating(DedupStart, ps, 1)

\* deduplicate(papers)
Deduplicate(ps) == DedupLoop(DedupStart, ps, 1).unique

DoiLower == <<"1", "0", ".", "1", "/", "x">>
DoiUpper == <<"1", "0", ".", "1", "/", "X">>

DedupTitles == {<<"A", "b">>, <<"a", "-", "b">>, <<"b">>, <<"-">>}

DedupPapers ==
    {MkPaper(0, title, None, doi, 0, FALSE, None) :
        title \in DedupTitles, doi \in {None, <<>>, DoiLower, DoiUpper}}

DedupInit ==
    /\ papers \in {WithIds(ps) : ps \in SeqsUpTo(DedupPapers, MaxDedupInput)}
    /\ pc = "dedup"
    /\ email = <<>>
    /\ lookups = <<>>
    /\ results = <<>>
    /\ enriched = <<>>
    /\ failed = <<>>
    /\ top_n = 0
    /\ required = None
    /\ out = <<>>
    /\ out2 = <<>>
    /\ permuted = <<>>
    /\ NoSearch
    /\ NoRequest

\* unique = deduplicate(papers)
Dedup ==
    /\ pc = "dedup"
    /\ out' = Deduplicate(papers)
    /\ pc' = "dedup_once"
    /\ UNCHANGED <<papers, email, lookups, results, enriched, failed, top_n, required, out2>>
    /\ UNCHANGED <<permuted, svars, pvars>>

\* deduplicate(unique): the list returned is deduplicated again
DedupAgain ==
    /\ pc = "dedup_once"
    /\ out2' = Deduplicate(out)
    /\ pc' = "dedup_twice"
    /\ UNCHANGED <<papers, email, lookups, results, enriched, failed, top_n, required, out>>
    /\ UNCHANGED <<permuted, svars, pvars>>

DedupNext == Dedup \/ DedupAgain

SpecDedup == DedupInit /\ [][DedupNext]_vars

-----------------------------------------------------------------------------
(* backend/quality_filter.py: score_paper and filter_and_rank *)

MaxRankInput == 3

\* scores are counted in millionths, so that math.log1p has integer values
Micro == 1000000

\* round(math.log1p(n) * 10^6)
Log1pMicro(n) ==
    CASE n = 0 -> 0
      [] n = 1 -> 693147
      [] n = 2 -> 1098612
      [] n = 3 -> 1386294
      [] n = 4 -> 1609438
      [] n = 5 -> 1791759
      [] n = 10 -> 2397895
      [] n = 50 -> 3931826
      [] n = 500 -> 6216606

\* the mutant of ScorePaper: the recency bonus goes to the records with fewer than
\* 2 citations
ScorePaperGateInverted(p) ==
    (IF p.citation_count > 0 THEN Log1pMicro(p.citation_count) * 5 ELSE 0)
    + (IF p.influential_citation_count > 0
       THEN Log1pMicro(p.influential_citation_count) * 10 ELSE 0)
    + (IF p.year /= 0 /\ p.citation_count < 2
       THEN (IF p.year >= 2020 THEN 12 * Micro
             ELSE IF p.year >= 2015 THEN 7 * Micro
             ELSE IF p.year >= 2010 THEN 3 * Micro
             ELSE 0)
       ELSE 0)
    + (IF Truthy(p.venue) THEN 5 * Micro ELSE 0)
    + (IF p.is_open_access THEN 4 * Micro ELSE 0)
    + (IF Truthy(p.abstract)
       THEN (IF Len(p.abstract) > 1000 THEN 10 * Micro
             ELSE IF Len(p.abstract) > 300 THEN 7 * Micro
             ELSE IF Len(p.abstract) > 50 THEN 3 * Micro
             ELSE 0)
       ELSE 0)

\* score_paper(paper), in millionths; year 0 stands for a year that is None
\* (both are false at `if paper.year`)
ScorePaper(p) ==
    (IF p.citation_count > 0 THEN Log1pMicro(p.citation_count) * 5 ELSE 0)
    + (IF p.influential_citation_count > 0
       THEN Log1pMicro(p.influential_citation_count) * 10 ELSE 0)
    + (IF p.year /= 0 /\ p.citation_count >= 2
       THEN (IF p.year >= 2020 THEN 12 * Micro
             ELSE IF p.year >= 2015 THEN 7 * Micro
             ELSE IF p.year >= 2010 THEN 3 * Micro
             ELSE 0)
       ELSE 0)
    + (IF Truthy(p.venue) THEN 5 * Micro ELSE 0)
    + (IF p.is_open_access THEN 4 * Micro ELSE 0)
    + (IF Truthy(p.abstract)
       THEN (IF Len(p.abstract) > 1000 THEN 10 * Micro
             ELSE IF Len(p.abstract) > 300 THEN 7 * Micro
             ELSE IF Len(p.abstract) > 50 THEN 3 * Micro
             ELSE 0)
       ELSE 0)

\* needle in haystack, of Python strings
Contains(haystack, needle) ==
    \E k \in 0..(Len(haystack) - Len(needle)) :
        \A i \in 1..Len(needle) : haystack[k + i] = needle[i]

HasAbstractFrom50(p) == Truthy(p.abstract) /\ Len(p.abstract) >= 50

\* p.abstract and len(p.abstract) > 50
HasAbstract(p) == Truthy(p.abstract) /\ Len(p.abstract) > 50

\* f"{paper.title} {paper.abstract or ''}".lower()
Haystack(p) ==
    Lower(p.title \o <<" ">> \o (IF Truthy(p.abstract) THEN p.abstract ELSE <<>>))

MatchesAny(p, phrases) ==
    \E k \in DOMAIN phrases : Contains(Haystack(p), Lower(phrases[k]))

\* matches(paper): all(phrase.lower() in haystack for phrase in required_phrases)
Matches(p, phrases) ==
    \A k \in DOMAIN phrases : Contains(Haystack(p), Lower(phrases[k]))

\* the mutant of InsertDesc: a record goes before the records of equal score
InsertDescBeforeTies(sorted, p) ==
    LET before == SelectSeq(sorted, LAMBDA q : q.quality_score > p.quality_score)
        after == SelectSeq(sorted, LAMBDA q : q.quality_score <= p.quality_score)
    IN  before \o <<p>> \o after

\* sorted(..., reverse=True) is stable: a record goes after every record already
\* placed whose key is not smaller
InsertDesc(sorted, p) ==
    LET before == SelectSeq(sorted, LAMBDA q : q.quality_score >= p.quality_score)
        after == SelectSeq(sorted, LAMBDA q : q.quality_score < p.quality_score)
    IN  before \o <<p>> \o after

RECURSIVE SortedDescLoop(_, _, _)
SortedDescLoop(sorted, ps, i) ==
    IF i > Len(ps) THEN sorted ELSE SortedDescLoop(InsertDesc(sorted, ps[i]), ps, i + 1)

Unsorted(ps) == ps

\* sorted(unique, key=lambda p: p.quality_score, reverse=True)
SortedDesc(ps) == SortedDescLoop(<<>>, ps, 1)

\* ranked[:top_n]
Slice(s, n) ==
    IF n >= 0 THEN SubSeq(s, 1, IF n < Len(s) THEN n ELSE Len(s))
    ELSE SubSeq(s, 1, IF Len(s) + n > 0 THEN Len(s) + n ELSE 0)

\* the records that pass the abstract and the phrase filters: lines 107-114
Eligible(ps, phrases) ==
    LET with_abstracts == SelectSeq(ps, HasAbstract)
    IN  IF phrases /= None /\ phrases /= <<>>
        THEN SelectSeq(with_abstracts, LAMBDA p : Matches(p, phrases))
        ELSE with_abstracts

\* for paper in unique: paper.quality_score = score_paper(paper)
Scored(unique) ==
    [k \in DOMAIN unique |-> [unique[k] EXCEPT !.quality_score = ScorePaper(unique[k])]]

\* the input list after the loop: the records of unique are the caller's objects,
\* so their quality_score is assigned in the caller's list too
ScoredInPlace(ps, unique) ==
    [i \in DOMAIN ps |->
        IF ps[i].id \in {unique[k].id : k \in DOMAIN unique}
        THEN [ps[i] EXCEPT !.quality_score = ScorePaper(ps[i])]
        ELSE ps[i]]

\* filter_and_rank(papers, top_n, required_phrases): the list returned, and the
\* input list as the call leaves it
FilterAndRank(ps, n, phrases) ==
    LET unique == Deduplicate(Eligible(ps, phrases))
    IN  [ranked |-> Slice(SortedDesc(Scored(unique)), n),
         papers |-> ScoredInPlace(ps, unique)]

Dots(n) == [i \in 1..n |-> "."]

\* 50 characters holding "gn"; 51 holding "gN"; 51 holding neither
Abstract50 == <<"g", "n">> \o Dots(48)
Abstract51Phrase == Dots(10) \o <<"g", "N">> \o Dots(39)
Abstract51 == Dots(51)

\* a title with its abstract, for records that filter_and_rank drops at once:
\* no abstract, and an abstract of 50 characters
ShortAbstracts == {<<<<"G", "n">>, None>>, <<<<"x">>, Abstract50>>}

\* a title with a 51-character abstract: the phrase "gn" in the title only,
\* nowhere, and in the abstract only (under two titles)
LongAbstracts ==
    {<<<<"G", "n">>, Abstract51>>, <<<<"x">>, Abstract51>>,
     <<<<"x">>, Abstract51Phrase>>, <<<<"b">>, Abstract51Phrase>>}

RankPapers ==
    {MkPaper(0, ta[1], ta[2], None, 0, FALSE, None) : ta \in ShortAbstracts}
    \cup {MkPaper(0, ta[1], ta[2], None, cites, FALSE, None) :
            ta \in LongAbstracts, cites \in {0, 3}}

\* top_n: small values, and the 10 that main.py passes
TopNs == {0, 1, 2, 10}

\* required_phrases as main.py passes it (`required or None`): None, one phrase,
\* two phrases
RequiredPhrases == {None, <<<<"g", "n">>>>, <<<<"G", "N">>, <<"x">>>>}

RankInit ==
    /\ papers \in {WithIds(ps) : ps \in SeqsUpTo(RankPapers, MaxRankInput)}
    /\ pc = "rank"
    /\ email = <<>>
    /\ lookups = <<>>
    /\ results = <<>>
    /\ enriched = <<>>
    /\ failed = <<>>
    /\ top_n = 0
    /\ required = None
    /\ out = <<>>
    /\ out2 = <<>>
    /\ permuted = <<>>
    /\ NoSearch
    /\ NoRequest

\* filter_and_rank(papers, top_n=n, required_phrases=phrases)
Rank(n, phrases) ==
    /\ pc = "rank"
    /\ top_n' = n
    /\ required' = phrases
    /\ \E r \in {FilterAndRank(papers, n, phrases)} :
           /\ out' = r.ranked
           /\ papers' = r.papers
    /\ pc' = "rank_done"
    /\ UNCHANGED <<email, lookups, results, enriched, failed, out2>>
    /\ UNCHANGED <<permuted, svars, pvars>>

RankNext == \E n \in TopNs, phrases \in RequiredPhrases : Rank(n, phrases)

SpecRank == RankInit /\ [][RankNext]_vars

-----------------------------------------------------------------------------
(* score_paper on two records that differ in one count *)

\* the counts math.log1p is tabulated for
Counts == {0, 1, 2, 3, 4, 5, 10, 50, 500}

\* the records scored: every recency band, with and without venue, open access
\* and abstract
ScoreBases ==
    {[MkPaper(0, <<"a">>, abstract, None, 0, oa, None)
        EXCEPT !.year = year, !.venue = venue] :
        abstract \in {None, Abstract51}, oa \in BOOLEAN,
        year \in {0, 2005, 2012, 2017, 2021}, venue \in {None, <<"v">>}}

\* base with its two counts set
WithCounts(base, cites, influential) ==
    [base EXCEPT !.citation_count = cites, !.influential_citation_count = influential]

\* two records that differ in one of the two counts only, the lower count first
ScorePair(b, lo, hi, other, which) ==
    IF which = "citation_count"
    THEN <<WithCounts(b, lo, other), WithCounts(b, hi, other)>>
    ELSE <<WithCounts(b, other, lo), WithCounts(b, other, hi)>>

ScoreInit ==
    /\ \E b \in ScoreBases, lo \in Counts, hi \in Counts, other \in {0, 1, 3},
          which \in {"citation_count", "influential_citation_count"} :
           /\ lo <= hi
           /\ papers = WithIds(ScorePair(b, lo, hi, other, which))
    /\ pc = "score"
    /\ email = <<>>
    /\ lookups = <<>>
    /\ results = <<>>
    /\ enriched = <<>>
    /\ failed = <<>>
    /\ top_n = 0
    /\ required = None
    /\ out = <<>>
    /\ out2 = <<>>
    /\ permuted = <<>>
    /\ NoSearch
    /\ NoRequest

\* paper.quality_score = score_paper(paper), for each of the two records
ScoreBoth ==
    /\ pc = "score"
    /\ out' = Scored(papers)
    /\ pc' = "score_done"
    /\ UNCHANGED <<papers, email, lookups, results, enriched, failed, top_n, required, out2>>
    /\ UNCHANGED <<permuted, svars, pvars>>

ScoreNext == ScoreBoth

SpecScore == ScoreInit /\ [][ScoreNext]_vars

-----------------------------------------------------------------------------
(* backend/paper_search.py: search_semantic_scholar, search_pubmed, search_all *)

MaxQueries == 2
max_retries == 3

QueryPool == <<"q1", "q2", "q3", "q4">>

Fields == {<<>>, <<"G", "e", "n", "e", "t", "i", "c", "s">>,
           <<"p", "h", "y", "s", "i", "c", "s">>}

biomedical_fields ==
    {<<"b", "i", "o", "l", "o", "g", "y">>,
     <<"m", "e", "d", "i", "c", "i", "n", "e">>,
     <<"n", "e", "u", "r", "o", "s", "c", "i", "e", "n", "c", "e">>,
     <<"b", "i", "o", "c", "h", "e", "m", "i", "s", "t", "r", "y">>,
     <<"g", "e", "n", "e", "t", "i", "c", "s">>,
     <<"p", "h", "a", "r", "m", "a", "c", "o", "l", "o", "g", "y">>}

include_pubmed(f) == \E b \in biomedical_fields : Contains(Lower(f), b)

\* the delays between two queries to one backend, in milliseconds
ss_delay == IF has_ss_key THEN 0 ELSE 2000
pm_delay == IF has_ncbi_key THEN 0 ELSE 400

\* what a backend answers: a parseable 200, two HTTP error statuses, or anything else that
\* raises inside the try block (timeout, connection error, malformed body)
Statuses == {"ok", "429", "500", "error"}
IsHTTPStatusError(status) == status \in {"429", "500"}
\* the number of records parsed out of a 200 response
Hits == {0, 1}

Request(url) == [kind |-> "request", url |-> url]
Response(status) == [kind |-> "response", status |-> status]
Sleep(ms) == [kind |-> "sleep", ms |-> ms]
Call(backend, query) ==
    [kind |-> "call", backend |-> backend, query |-> query, outcome |-> "pending",
     returned |-> <<>>]

SsHit(query, k, i) ==
    [MkPaper(i, <<"t">>, None, None, 0, FALSE, None) EXCEPT !.semantic_scholar_id = <<query, k>>]
PmHit(query, k, i) ==
    [MkPaper(i, <<"t">>, None, None, 0, FALSE, None)
        EXCEPT !.url = <<query, k>>, !.source = "pubmed"]
SsParsed(h) == [k \in 1..h |-> SsHit(queries[qi + 1], k, 10 * Len(calls) + k)]
PmParsed(h) == [k \in 1..h |-> PmHit(queries[qi + 1], k, 10 * Len(calls) + k)]

\* search_semantic_scholar: the except HTTPStatusError branch sleeps and goes round again
ShouldRetryAnyStatus(status, a) == IsHTTPStatusError(status) /\ a < max_retries - 1

ShouldRetry(status, a) == status = "429" /\ a < max_retries - 1

Wait(a) == 2 ^ (a + 1) * 1000

\* search_all: papers.extend(result)
ExtendAtFront(ps, res) == res \o ps

Extend(ps, res) == ps \o res

\* search_all: the query after one whose PubMed call raised
AbortPubmedLoop(i) == Len(queries)

AfterPubmedError(i) == i + 1

\* the end of a backend call: search_all extends papers and goes to the next query
CallReturns(outcome, recs, next) ==
    /\ calls' = [calls EXCEPT ![Len(calls)].outcome = outcome, ![Len(calls)].returned = recs]
    /\ result' = IF outcome = "ok" THEN recs ELSE <<>>
    /\ papers' = IF outcome = "raised" THEN papers
                 ELSE Extend(papers, IF outcome = "ok" THEN recs ELSE <<>>)
    /\ qi' = next

SearchInit ==
    /\ queries \in {SubSeq(QueryPool, 1, n) : n \in 0..MaxQueries}
    /\ field \in Fields
    /\ has_ss_key \in BOOLEAN
    /\ has_ncbi_key \in BOOLEAN
    /\ papers = <<>>
    /\ pc = "ss_loop"
    /\ qi = 0
    /\ attempt = 0
    /\ inflight = 0
    /\ calls = <<>>
    /\ reqlog = <<>>
    /\ result = <<>>
    /\ email = <<>>
    /\ lookups = <<>>
    /\ results = <<>>
    /\ enriched = <<>>
    /\ failed = <<>>
    /\ top_n = 0
    /\ required = None
    /\ out = <<>>
    /\ out2 = <<>>
    /\ permuted = <<>>
    /\ NoRequest

\* the head of the Semantic Scholar loop: sleep, call search_semantic_scholar, send its
\* first request; after the last query go on to PubMed or return
SsLoop ==
    /\ pc = "ss_loop"
    /\ IF qi < Len(queries)
       THEN /\ calls' = calls \o (IF qi > 0 /\ ss_delay /= 0 THEN <<Sleep(ss_delay)>> ELSE <<>>)
                              \o <<Call("semantic_scholar", queries[qi + 1])>>
            /\ attempt' = 0
            /\ reqlog' = <<Request("ss")>>
            /\ inflight' = inflight + 1
            /\ pc' = "ss_request"
            /\ UNCHANGED qi
       ELSE /\ pc' = IF include_pubmed(field) THEN "pm_loop" ELSE "search_done"
            /\ qi' = 0
            /\ UNCHANGED <<calls, attempt, reqlog, inflight>>
    /\ UNCHANGED <<papers, result, queries, field, has_ss_key, has_ncbi_key>>
    /\ UNCHANGED <<evars, rvars, pvars>>

\* the answer to a Semantic Scholar request
SsResponse(status, h) ==
    /\ pc = "ss_request"
    /\ inflight' = inflight - 1
    /\ IF status = "ok"
       THEN /\ reqlog' = Append(reqlog, Response(status))
            /\ CallReturns("ok", SsParsed(h), qi + 1)
            /\ pc' = "ss_loop"
       ELSE IF IsHTTPStatusError(status) /\ ShouldRetry(status, attempt)
       THEN /\ reqlog' = reqlog \o <<Response(status), Sleep(Wait(attempt))>>
            /\ pc' = "ss_backoff"
            /\ UNCHANGED <<calls, result, papers, qi>>
       ELSE /\ reqlog' = Append(reqlog, Response(status))
            /\ CallReturns("failed", <<>>, qi + 1)
            /\ pc' = "ss_loop"
    /\ UNCHANGED <<attempt, queries, field, has_ss_key, has_ncbi_key>>
    /\ UNCHANGED <<evars, rvars, pvars>>

\* the backoff sleep is over: the next round of for attempt in range(max_retries)
SsRetry ==
    /\ pc = "ss_backoff"
    /\ attempt' = attempt + 1
    /\ IF attempt + 1 < max_retries
       THEN /\ reqlog' = Append(reqlog, Request("ss"))
            /\ inflight' = inflight + 1
            /\ pc' = "ss_request"
            /\ UNCHANGED <<calls, result, papers, qi>>
       ELSE /\ CallReturns("failed", <<>>, qi + 1)
            /\ pc' = "ss_loop"
            /\ UNCHANGED <<reqlog, inflight>>
    /\ UNCHANGED <<queries, field, has_ss_key, has_ncbi_key>>
    /\ UNCHANGED <<evars, rvars, pvars>>

\* the head of the PubMed loop: sleep, call search_pubmed, send esearch
PmLoop ==
    /\ pc = "pm_loop"
    /\ IF qi < Len(queries)
       THEN /\ calls' = calls \o (IF qi > 0 /\ pm_delay /= 0 THEN <<Sleep(pm_delay)>> ELSE <<>>)
                              \o <<Call("pubmed", queries[qi + 1])>>
            /\ reqlog' = <<Request("esearch")>>
            /\ inflight' = inflight + 1
            /\ pc' = "pm_esearch"
       ELSE /\ pc' = "search_done"
            /\ UNCHANGED <<calls, reqlog, inflight>>
    /\ UNCHANGED <<papers, result, qi, attempt, queries, field, has_ss_key, has_ncbi_key>>
    /\ UNCHANGED <<evars, rvars, pvars>>

\* the answer to esearch: an error, an empty idlist, or ids, which are then fetched
EsearchResponse(status, ids) ==
    /\ pc = "pm_esearch"
    /\ IF status = "ok" /\ ids
       THEN /\ reqlog' = reqlog \o <<Response(status), Request("efetch")>>
            /\ inflight' = inflight
            /\ pc' = "pm_efetch"
            /\ UNCHANGED <<calls, result, papers, qi>>
       ELSE /\ reqlog' = Append(reqlog, Response(status))
            /\ inflight' = inflight - 1
            /\ CallReturns(IF status = "ok" THEN "ok" ELSE "failed", <<>>, qi + 1)
            /\ pc' = "pm_loop"
    /\ UNCHANGED <<attempt, queries, field, has_ss_key, has_ncbi_key>>
    /\ UNCHANGED <<evars, rvars, pvars>>

\* the answer to efetch; raises stands for an exception that escapes _parse_pubmed_xml
EfetchResponse(status, h, raises) ==
    /\ pc = "pm_efetch"
    /\ reqlog' = Append(reqlog, Response(status))
    /\ inflight' = inflight - 1
    /\ IF status /= "ok"
       THEN CallReturns("failed", <<>>, qi + 1)
       ELSE IF raises
       THEN CallReturns("raised", <<>>, AfterPubmedError(qi))
       ELSE CallReturns("ok", PmParsed(h), qi + 1)
    /\ pc' = "pm_loop"
    /\ UNCHANGED <<attempt, queries, field, has_ss_key, has_ncbi_key>>
    /\ UNCHANGED <<evars, rvars, pvars>>

SearchNext ==
    \/ SsLoop
    \/ \E status \in Statuses, h \in Hits : SsResponse(status, h)
    \/ SsRetry
    \/ PmLoop
    \/ \E status \in Statuses, ids \in BOOLEAN : EsearchResponse(status, ids)
    \/ \E status \in Statuses, h \in Hits, raises \in BOOLEAN : EfetchResponse(status, h, raises)

SpecSearch == SearchInit /\ [][SearchNext]_vars

\* every request is answered or times out (TIMEOUT), and every sleep ends
SpecSearchFair == SpecSearch /\ WF_vars(SearchNext)

-----------------------------------------------------------------------------
(* backend/main.py: get_papers, generate, _run_pipeline *)

MaxPipelineInput == 2
MaxChunks == 1

\* quality_filter.py: re.findall(r'"([^"]+)"', topic)
RECURSIVE UpToQuote(_)
UpToQuote(s) == IF s = <<>> \/ s[1] = "\"" THEN <<>> ELSE <<s[1]>> \o UpToQuote(Tail(s))

RECURSIVE extract_quoted_phrases(_)
extract_quoted_phrases(s) ==
    IF s = <<>> THEN <<>>
    ELSE IF s[1] /= "\"" THEN extract_quoted_phrases(Tail(s))
    ELSE LET phrase == UpToQuote(Tail(s))
         IN  IF phrase /= <<>> /\ Len(phrase) + 1 < Len(s)
             THEN <<phrase>> \o extract_quoted_phrases(SubSeq(s, Len(phrase) + 3, Len(s)))
             ELSE extract_quoted_phrases(Tail(s))

\* not req.topic.strip()
RECURSIVE LStrip(_)
LStrip(s) == IF s /= <<>> /\ s[1] = " " THEN LStrip(Tail(s)) ELSE s
IsBlank(s) == LStrip(s) = <<>>

\* a blank topic, a plain one, one with a quoted phrase
Topics == {<<" ">>, <<"g", "n">>, <<"\"", "g", "n", "\"">>}

\* records as search_all returns them or as the caller selects them: one that lacks a
\* PDF URL and has a DOI, one open access with its URL, one without an abstract, and one
\* flagged open access without a URL
PipelinePapers ==
    {MkPaper(0, <<"G", "n">>, Abstract51, Doi1, 3, FALSE, None),
     MkPaper(0, <<"x">>, Abstract51, None, 0, TRUE, PdfUrl),
     MkPaper(0, <<"b">>, None, Doi1, 0, FALSE, None),
     MkPaper(0, <<"x">>, Abstract51, Doi1, 0, TRUE, None)}

PaperLists == {WithIds(ps) : ps \in SeqsUpTo(PipelinePapers, MaxPipelineInput)}

StatusEvent == [type |-> "status"]
QueriesEvent == [type |-> "queries"]
ErrorEvent(message) == [type |-> "error", message |-> message]
ChunkEvent == [type |-> "primer_chunk"]
DoneEvent == [type |-> "done"]
PapersEvent(all_papers, failed_papers) ==
    [type |-> "papers", papers |-> Ids(all_papers), failed_pdf_count |-> Len(failed_papers)]
\* an HTTPException, or the 500 of an exception that get_papers does not catch
HttpError(status) == [type |-> "http", status |-> status]
PapersResponse(top_papers) == [type |-> "http", status |-> 200, papers |-> Ids(top_papers)]

\* _run_pipeline after `if not raw_papers:` has yielded its error: return
FallThrough(next) == next

AfterNoPapers(next) == "closed"

\* oa_count = sum(1 for p in top_papers if p.is_open_access and p.pdf_url)
oa_count(top_papers) == Cardinality(OaIndices(top_papers))

PipelineInit ==
    /\ endpoint \in {"generate", "papers"}
    /\ topic \in Topics
    /\ selected \in IF endpoint = "generate" THEN PaperLists ELSE {<<>>}
    /\ email \in {<<>>, <<"e">>}
    /\ pc = "request"
    /\ events = <<>>
    /\ papers = <<>>
    /\ lookups = <<>>
    /\ results = <<>>
    /\ enriched = <<>>
    /\ failed = <<>>
    /\ top_n = 0
    /\ required = None
    /\ out = <<>>
    /\ out2 = <<>>
    /\ permuted = <<>>
    /\ NoSearch

\* both routes: if not req.topic.strip(): raise HTTPException(400)
RejectBlankTopic ==
    /\ pc = "request"
    /\ IsBlank(topic)
    /\ events' = <<HttpError(400)>>
    /\ pc' = "closed"
    /\ UNCHANGED <<papers, out, enriched, failed, top_n, required>>
    /\ UNCHANGED <<email, lookups, results, out2, permuted, svars, topic, selected, endpoint>>

\* _run_pipeline up to its first await: the selected papers, or expand_query
PipelineStart ==
    /\ pc = "request"
    /\ endpoint = "generate"
    /\ ~IsBlank(topic)
    /\ events' = <<StatusEvent>>
    /\ IF selected /= <<>>
       THEN /\ out' = selected
            /\ pc' = "oa_count"
       ELSE /\ pc' = "expand"
            /\ UNCHANGED out
    /\ UNCHANGED <<papers, enriched, failed, top_n, required>>
    /\ UNCHANGED <<email, lookups, results, out2, permuted, svars, topic, selected, endpoint>>

\* get_papers up to its first await
GetPapersStart ==
    /\ pc = "request"
    /\ endpoint = "papers"
    /\ ~IsBlank(topic)
    /\ pc' = "expand"
    /\ UNCHANGED <<events, papers, out, enriched, failed, top_n, required>>
    /\ UNCHANGED <<email, lookups, results, out2, permuted, svars, topic, selected, endpoint>>

ExpandReturns ==
    /\ pc = "expand"
    /\ events' = IF endpoint = "generate" THEN events \o <<QueriesEvent, StatusEvent>>
                 ELSE events
    /\ pc' = "search"
    /\ UNCHANGED <<papers, out, enriched, failed, top_n, required>>
    /\ UNCHANGED <<email, lookups, results, out2, permuted, svars, topic, selected, endpoint>>

ExpandRaises ==
    /\ pc = "expand"
    /\ events' = IF endpoint = "generate" THEN Append(events, ErrorEvent("Query expansion failed"))
                 ELSE <<HttpError(500)>>
    /\ pc' = "closed"
    /\ UNCHANGED <<papers, out, enriched, failed, top_n, required>>
    /\ UNCHANGED <<email, lookups, results, out2, permuted, svars, topic, selected, endpoint>>

\* search_all returns raw_papers: main.py 76-80 and 141-142
SearchReturns(raw_papers) ==
    /\ pc = "search"
    /\ papers' = raw_papers
    /\ IF raw_papers = <<>>
       THEN IF endpoint = "generate"
            THEN /\ events' = Append(events, ErrorEvent("No papers found"))
                 /\ pc' = AfterNoPapers("rank_stage")
            ELSE /\ events' = <<HttpError(404)>>
                 /\ pc' = "closed"
       ELSE /\ events' = IF endpoint = "generate" THEN Append(events, StatusEvent)
                         ELSE events
            /\ pc' = "rank_stage"
    /\ UNCHANGED <<out, enriched, failed, top_n, required>>
    /\ UNCHANGED <<email, lookups, results, out2, permuted, svars, topic, selected, endpoint>>

SearchRaises ==
    /\ pc = "search"
    /\ events' = IF endpoint = "generate" THEN Append(events, ErrorEvent("Paper search failed"))
                 ELSE <<HttpError(500)>>
    /\ pc' = "closed"
    /\ UNCHANGED <<papers, out, enriched, failed, top_n, required>>
    /\ UNCHANGED <<email, lookups, results, out2, permuted, svars, topic, selected, endpoint>>

\* required = extract_quoted_phrases(topic); top_papers = filter_and_rank(raw_papers,
\* top_n=10, required_phrases=required or None), and what each route does with it
RankStage ==
    /\ pc = "rank_stage"
    /\ top_n' = 10
    /\ required' = IF extract_quoted_phrases(topic) = <<>> THEN None
                   ELSE extract_quoted_phrases(topic)
    /\ \E r \in {FilterAndRank(papers, top_n', required')} :
           /\ papers' = r.papers
           /\ out' = r.ranked
           /\ IF endpoint = "papers"
              THEN /\ events' = <<PapersResponse(r.ranked)>>
                   /\ pc' = "closed"
              ELSE IF r.ranked = <<>>
              THEN /\ events' = Append(events, ErrorEvent("none had usable abstracts"))
                   /\ pc' = "closed"
              ELSE /\ pc' = "oa_count"
                   /\ UNCHANGED events
    /\ UNCHANGED <<enriched, failed>>
    /\ UNCHANGED <<email, lookups, results, out2, permuted, svars, topic, selected, endpoint>>

\* main.py 88-98: enrich_papers_with_pdfs(top_papers) is called only if oa_count
EnrichmentStep ==
    /\ pc = "oa_count"
    /\ papers' = out
    /\ IF oa_count(out) /= 0
       THEN /\ events' = Append(events, StatusEvent)
            /\ pc' = "enrich"
            /\ UNCHANGED <<enriched, failed>>
       ELSE /\ enriched' = out
            /\ failed' = <<>>
            /\ pc' = "enrich_done"
            /\ UNCHANGED events
    /\ UNCHANGED <<out, top_n, required>>
    /\ UNCHANGED <<email, lookups, results, out2, permuted, svars, topic, selected, endpoint>>

\* except Exception: enriched_papers, failed_papers = top_papers, []
EnrichRaises ==
    /\ pc = "enrich"
    /\ endpoint = "generate"
    /\ enriched' = papers
    /\ failed' = <<>>
    /\ pc' = "enrich_done"
    /\ UNCHANGED <<events, papers, out, top_n, required>>
    /\ UNCHANGED <<email, lookups, results, out2, permuted, svars, topic, selected, endpoint>>

\* main.py 100-112: the papers event and the status before the primer
EmitPapers ==
    /\ pc = "enrich_done"
    /\ endpoint = "generate"
    /\ events' = events \o <<PapersEvent(enriched \o failed, failed), StatusEvent>>
    /\ pc' = "primer"
    /\ UNCHANGED <<papers, out, enriched, failed, top_n, required>>
    /\ UNCHANGED <<email, lookups, results, out2, permuted, svars, topic, selected, endpoint>>

Chunks == Len(SelectSeq(events, LAMBDA e : e = ChunkEvent))

\* stream_primer yields a chunk, raises, or is exhausted
PrimerChunk ==
    /\ pc = "primer"
    /\ Chunks < MaxChunks
    /\ events' = Append(events, ChunkEvent)
    /\ UNCHANGED <<pc, papers, out, enriched, failed, top_n, required>>
    /\ UNCHANGED <<email, lookups, results, out2, permuted, svars, topic, selected, endpoint>>

PrimerRaises ==
    /\ pc = "primer"
    /\ events' = Append(events, ErrorEvent("Primer generation failed"))
    /\ pc' = "closed"
    /\ UNCHANGED <<papers, out, enriched, failed, top_n, required>>
    /\ UNCHANGED <<email, lookups, results, out2, permuted, svars, topic, selected, endpoint>>

PrimerEnds ==
    /\ pc = "primer"
    /\ events' = Append(events, DoneEvent)
    /\ pc' = "closed"
    /\ UNCHANGED <<papers, out, enriched, failed, top_n, required>>
    /\ UNCHANGED <<email, lookups, results, out2, permuted, svars, topic, selected, endpoint>>

PipelineNext ==
    \/ RejectBlankTopic
    \/ PipelineStart
    \/ GetPapersStart
    \/ ExpandReturns
    \/ ExpandRaises
    \/ \E raw_papers \in PaperLists : SearchReturns(raw_papers)
    \/ SearchRaises
    \/ RankStage
    \/ EnrichmentStep
    \/ EnrichRaises
    \/ EnrichNext
    \/ EmitPapers
    \/ PrimerChunk
    \/ PrimerRaises
    \/ PrimerEnds

SpecPipeline == PipelineInit /\ [][PipelineNext]_vars

-----------------------------------------------------------------------------
(* backend/quality_filter.py: filter_and_rank on a list and on a permutation of it *)

MaxPermInput == 3

\* records with an abstract of 51 characters: two that share a title, two that share a
\* DOI, two of equal score under different titles
PermPapers ==
    {MkPaper(0, <<"x">>, Abstract51, None, 0, FALSE, None),
     MkPaper(0, <<"x">>, Abstract51, None, 3, FALSE, None),
     MkPaper(0, <<"b">>, Abstract51, None, 0, FALSE, None),
     MkPaper(0, <<"G", "n">>, Abstract51, Doi1, 10, FALSE, None),
     MkPaper(0, <<"b">>, Abstract51, Doi1, 5, FALSE, None)}

Orders(n) == {f \in [1..n -> 1..n] : \A a, b \in 1..n : f[a] = f[b] => a = b}
Permute(ps, f) == [k \in DOMAIN ps |-> ps[f[k]]]

PermInit ==
    /\ papers \in {WithIds(ps) : ps \in SeqsUpTo(PermPapers, MaxPermInput)}
    /\ permuted \in {Permute(papers, f) : f \in Orders(Len(papers))}
    /\ pc = "perm"
    /\ email = <<>>
    /\ lookups = <<>>
    /\ results = <<>>
    /\ enriched = <<>>
    /\ failed = <<>>
    /\ top_n = 0
    /\ required = None
    /\ out = <<>>
    /\ out2 = <<>>
    /\ NoSearch
    /\ NoRequest

\* filter_and_rank(papers, n, phrases) and filter_and_rank(permuted, n, phrases)
RankBoth(n, phrases) ==
    /\ pc = "perm"
    /\ top_n' = n
    /\ required' = phrases
    /\ \E r \in {FilterAndRank(papers, n, phrases)} :
           /\ out' = r.ranked
           /\ papers' = r.papers
    /\ \E r \in {FilterAndRank(permuted, n, phrases)} :
           /\ out2' = r.ranked
           /\ permuted' = r.papers
    /\ pc' = "perm_done"
    /\ UNCHANGED <<email, lookups, results, enriched, failed>>
    /\ UNCHANGED <<svars, pvars>>

PermNext == \E n \in {1, 10}, phrases \in {None, <<<<"g", "n">>>>} : RankBoth(n, phrases)

SpecPerm == PermInit /\ [][PermNext]_vars

-----------------------------------------------------------------------------
(* the three operations together *)

Init == EnrichInit \/ DedupInit \/ RankInit

Next == EnrichNext \/ DedupNext \/ RankNext

Spec == Init /\ [][Next]_vars

-----------------------------------------------------------------------------
(* enrich_papers_with_pdfs: the claims *)

IdSet(ps) == {ps[k].id : k \in DOMAIN ps}
Increasing(s) == \A a, b \in DOMAIN s : a < b => s[a] < s[b]
EnrichReturned == enriched \o failed
\* the records that were not candidates at line 138
PassThrough == DOMAIN papers \ OaIndices(papers)
Downloaded == pc = "enrich_done" /\ results /= <<>>
AllFailedNoPassThrough ==
    /\ DOMAIN results = DOMAIN papers
    /\ \A i \in DOMAIN results : results[i] \in {None, Exc}

\* C1: when enrich_papers_with_pdfs returns, every input record is exactly once in
\* enriched ++ failed, nothing else is there, and a pass-through record is in
\* enriched and not in failed.
C1_PartitionCoversInputOnce ==
    pc = "enrich_done" =>
        /\ Len(enriched) + Len(failed) = Len(papers)
        /\ \A i \in DOMAIN papers :
              Cardinality({k \in DOMAIN EnrichReturned : EnrichReturned[k].id = i}) = 1
        /\ \A k \in DOMAIN EnrichReturned :
              /\ EnrichReturned[k].id \in DOMAIN papers
              /\ EnrichReturned[k] = papers[EnrichReturned[k].id]
        /\ \A i \in PassThrough : i \in IdSet(enriched) /\ i \notin IdSet(failed)

C1_Witness ==
    /\ Downloaded
    /\ PassThrough /= {}
    /\ \E i, j \in DOMAIN results : results[i] = Exc /\ results[j] = PdfText
    /\ failed /= <<>>

\* C2 as claimed: a candidate whose download raises or returns None is in failed
\* and not in enriched, and every other candidate is classified by its own outcome.
C2_FailureAlwaysInFailed ==
    Downloaded =>
        \A i \in DOMAIN results :
            /\ results[i] \in {None, Exc} => i \in IdSet(failed) /\ i \notin IdSet(enriched)
            /\ results[i] = PdfText => i \in IdSet(enriched) /\ i \notin IdSet(failed)

\* C2 as amended: the same, unless every candidate failed and there was no
\* pass-through record; then every record is in enriched and failed is empty.
C2_FailureInFailedUnlessFallback ==
    Downloaded =>
        IF AllFailedNoPassThrough
        THEN IdSet(enriched) = DOMAIN papers /\ failed = <<>>
        ELSE \A i \in DOMAIN results :
                /\ results[i] \in {None, Exc} =>
                      i \in IdSet(failed) /\ i \notin IdSet(enriched)
                /\ results[i] = PdfText =>
                      /\ i \in IdSet(enriched) /\ i \notin IdSet(failed)
                      /\ papers[i].pdf_text = PdfText

C2_Witness ==
    /\ Downloaded
    /\ \E i, j, k \in DOMAIN results :
          results[i] = Exc /\ results[j] = PdfText /\ results[k] = None
    /\ Len(failed) = 2

\* C3 as claimed: enriched is a subsequence of the input, and so is failed.
C3_BothSubsequences ==
    pc = "enrich_done" => Increasing(Ids(enriched)) /\ Increasing(Ids(failed))

\* C3 as amended: failed is a subsequence of the input; enriched is the pass-through
\* records in input order followed by the candidates it holds in input order.
C3_OrderWithinGroups ==
    pc = "enrich_done" =>
        /\ Increasing(Ids(failed))
        /\ \A a, b \in DOMAIN enriched :
              a < b =>
                 /\ ~(enriched[a].id \notin PassThrough /\ enriched[b].id \in PassThrough)
                 /\ (enriched[a].id \in PassThrough <=> enriched[b].id \in PassThrough)
                       => enriched[a].id < enriched[b].id

C3_Witness ==
    /\ Downloaded
    /\ ~Increasing(Ids(enriched))
    /\ Len(enriched) = 3

\* C4: when every candidate fails and there is no pass-through record, the input
\* comes back in its order as enriched, failed is empty and no full text is set;
\* and enriched is never empty for a non-empty input.
C4_FallbackToAbstracts ==
    pc = "enrich_done" =>
        /\ (papers /= <<>> /\ AllFailedNoPassThrough) =>
              /\ Ids(enriched) = [i \in DOMAIN papers |-> i]
              /\ enriched = papers
              /\ failed = <<>>
              /\ \A i \in DOMAIN papers : papers[i].pdf_text = None
        /\ papers /= <<>> => enriched /= <<>>

C4_Witness ==
    /\ Downloaded
    /\ AllFailedNoPassThrough
    /\ Len(papers) >= 2
    /\ \E i, j \in DOMAIN results : results[i] = Exc /\ results[j] = None

-----------------------------------------------------------------------------
(* deduplicate: the claims *)

Deduped == pc \in {"dedup_once", "dedup_twice"}
Kept(i) == i \in IdSet(out)
SameDoi(i, j) == Truthy(papers[j].doi) /\ papers[i].doi = papers[j].doi
SameTitle(i, j) == NormalizeTitle(papers[i].title) = NormalizeTitle(papers[j].title)
DoiDiffersInCaseOnly(i, j) ==
    /\ Truthy(papers[i].doi) /\ Truthy(papers[j].doi)
    /\ papers[i].doi /= papers[j].doi
    /\ Lower(papers[i].doi) = Lower(papers[j].doi)

\* C5: deduplicating the output of deduplicate again returns the same list.
C5_DedupIdempotent == pc = "dedup_twice" => out2 = out

C5_Witness ==
    /\ pc = "dedup_twice"
    /\ Len(out) = 2
    /\ Len(papers) = 3

\* C6: the output of deduplicate is a subsequence of its input whose records keep
\* their fields; a record is dropped only if an earlier kept record has the same
\* non-empty DOI or the same normalized title; a record whose DOI and normalized
\* title are unique in the input is never dropped.
C6_DedupSubsequenceEarliestWins ==
    Deduped =>
        /\ Len(out) <= Len(papers)
        /\ Increasing(Ids(out))
        /\ \A k \in DOMAIN out : out[k].id \in DOMAIN papers /\ out[k] = papers[out[k].id]
        /\ \A j \in DOMAIN papers :
              ~Kept(j) => \E i \in 1..(j - 1) : Kept(i) /\ (SameDoi(i, j) \/ SameTitle(i, j))
        /\ \A j \in DOMAIN papers :
              (\A i \in DOMAIN papers \ {j} : ~SameDoi(i, j) /\ ~SameTitle(i, j)) => Kept(j)

C6_Witness ==
    /\ pc = "dedup_once"
    /\ \E j \in DOMAIN papers :
          ~Kept(j) /\ \A i \in 1..(j - 1) : ~SameTitle(i, j)
    /\ \E j \in DOMAIN papers :
          /\ ~Kept(j)
          /\ \A i \in 1..(j - 1) : ~SameDoi(i, j)
          /\ \E i \in 1..(j - 1) : SameTitle(i, j) /\ papers[i].title /= papers[j].title

\* C7 as claimed: of two records whose DOIs differ only in letter case, the later
\* one is dropped when the earlier one was kept.
C7_DoiCaseInsensitive ==
    Deduped =>
        \A i, j \in DOMAIN papers :
            (i < j /\ DoiDiffersInCaseOnly(i, j) /\ Kept(i)) => ~Kept(j)

\* C7 as amended: DOIs are matched by exact string equality. A record is dropped
\* when an earlier kept record has exactly its non-empty DOI, and a record whose DOI
\* differs from an earlier kept record's only in letter case is kept unless an
\* earlier kept record has exactly its DOI or its normalized title.
C7_DoiMatchIsExact ==
    Deduped =>
        \A j \in DOMAIN papers :
            /\ (\E i \in 1..(j - 1) : Kept(i) /\ SameDoi(i, j)) => ~Kept(j)
            /\ ( /\ \E i \in 1..(j - 1) : Kept(i) /\ DoiDiffersInCaseOnly(i, j)
                 /\ \A i \in 1..(j - 1) : Kept(i) => ~SameDoi(i, j) /\ ~SameTitle(i, j) )
               => Kept(j)

C7_Witness ==
    /\ pc = "dedup_once"
    /\ \E i, j \in DOMAIN papers : i < j /\ DoiDiffersInCaseOnly(i, j) /\ Kept(i) /\ Kept(j)
    /\ \E i, j \in DOMAIN papers : i < j /\ Kept(i) /\ SameDoi(i, j) /\ ~SameTitle(i, j)

-----------------------------------------------------------------------------
(* filter_and_rank: the claims *)

\* the eligible, deduplicated records of the input, in input order
RankUnique == Deduplicate(Eligible(papers, required))
Before(p, q) ==
    \/ p.quality_score > q.quality_score
    \/ p.quality_score = q.quality_score /\ p.id < q.id
TitleAndAbstract(p) ==
    p.title \o <<" ">> \o (IF p.abstract = None THEN <<>> ELSE p.abstract)

\* C8: for top_n >= 0, filter_and_rank returns at most top_n records, each with
\* an abstract of more than 50 characters.
C8_AtMostTopNWithAbstracts ==
    (pc = "rank_done" /\ top_n >= 0) =>
        /\ Len(out) <= top_n
        /\ \A k \in DOMAIN out : out[k].abstract /= None /\ Len(out[k].abstract) > 50

C8_Witness ==
    /\ pc = "rank_done"
    /\ top_n = 2
    /\ Len(out) = 2
    /\ Len(RankUnique) = 3

\* C9: filter_and_rank returns the eligible, deduplicated records by quality score,
\* highest first, records of equal score in input order, cut to the first top_n.
C9_RankedByScoreStable ==
    pc = "rank_done" =>
        \A unique \in {Scored(RankUnique)} :
            /\ \A k \in DOMAIN out : \E u \in DOMAIN unique : out[k] = unique[u]
            /\ Len(out) = (IF top_n < Len(unique) THEN top_n ELSE Len(unique))
            /\ \A a, b \in DOMAIN out : a < b => Before(out[a], out[b])
            /\ \A k \in DOMAIN out : \A u \in DOMAIN unique :
                  unique[u].id \notin IdSet(out) => Before(out[k], unique[u])

C9_Witness ==
    /\ pc = "rank_done"
    /\ Len(out) = 2
    /\ out[1].id > out[2].id
    /\ \E u \in DOMAIN RankUnique :
          /\ RankUnique[u].id \notin IdSet(out)
          /\ ScorePaper(RankUnique[u]) = out[2].quality_score

\* C10: with required phrases, every record returned holds every phrase, letter
\* case apart, in its title and abstract joined by a space.
C10_RequiredPhrasesHold ==
    (pc = "rank_done" /\ required /= None /\ required /= <<>>) =>
        \A k \in DOMAIN out : \A f \in DOMAIN required :
            Contains(Lower(TitleAndAbstract(out[k])), Lower(required[f]))

C10_Witness ==
    /\ pc = "rank_done"
    /\ required /= None
    /\ Len(required) = 2
    /\ out /= <<>>
    /\ out[1].citation_count = 0
    /\ \E i \in DOMAIN papers :
          /\ papers[i].abstract /= None /\ Len(papers[i].abstract) > 50
          /\ papers[i].citation_count = 3
          /\ papers[i].id \notin IdSet(out)
          /\ \E f \in DOMAIN required :
                ~Contains(Lower(TitleAndAbstract(papers[i])), Lower(required[f]))

-----------------------------------------------------------------------------
(* score_paper: the claims *)

\* the two records are equal in every field but f
EqualBut(p, q, f) ==
    \A g \in (DOMAIN p) \ {f, "id", "quality_score"} : p[g] = q[g]

\* C11: of two records equal in every field but citation_count, the one with the
\* larger count has no smaller score; the same for influential_citation_count.
C11_ScoreMonotonic ==
    pc = "score_done" =>
        /\ (EqualBut(out[1], out[2], "citation_count")
              /\ out[1].citation_count <= out[2].citation_count)
             => out[1].quality_score <= out[2].quality_score
        /\ (EqualBut(out[1], out[2], "influential_citation_count")
              /\ out[1].influential_citation_count <= out[2].influential_citation_count)
             => out[1].quality_score <= out[2].quality_score

\* a pair across the recency gate: 1 and 2 citations, in the newest recency band
C11_Witness ==
    /\ pc = "score_done"
    /\ out[1].citation_count = 1
    /\ out[2].citation_count = 2
    /\ out[1].year = 2021
    /\ out[2].quality_score >= out[1].quality_score + 12 * Micro

-----------------------------------------------------------------------------
(* search_semantic_scholar and search_all: the claims *)

LastCall == calls[Len(calls)]
InSsCall == calls /= <<>> /\ LastCall.backend = "semantic_scholar"
RequestAt == {j \in DOMAIN reqlog : reqlog[j].kind = "request"}
LastEntry == reqlog[Len(reqlog)]
\* the number of requests sent before the one at position j of reqlog
RetryNo(j) == Cardinality({k \in RequestAt : k < j})

\* the call has seen an answer after which the claim lets it send nothing more
SsMustEnd ==
    /\ LastEntry.kind = "response"
    /\ \/ LastEntry.status \in {"500", "error"}
       \/ LastEntry.status = "429" /\ Cardinality(RequestAt) = 3

C12_Safety ==
    InSsCall =>
        /\ Cardinality(RequestAt) <= 3
        /\ \A j \in RequestAt :
               j > 1 => /\ j >= 4
                        /\ reqlog[j - 2] = Response("429")
                        /\ reqlog[j - 1] = Sleep(1000 * 2 ^ RetryNo(j))
        /\ SsMustEnd => LastCall.outcome = "failed" /\ result = <<>>
        /\ LastCall.outcome /= "raised"

\* C12: a Semantic Scholar search for one query sends at most 3 requests; a request after
\* the first follows a 429 answer and a backoff sleep of 2 s, then 4 s; an answer that is
\* a failure other than 429, or a 429 to the third request, ends the call with an empty
\* list; the call never raises; and every call that has begun returns.
C12_SsBoundedRetries ==
    /\ []C12_Safety
    /\ (pc \in {"ss_request", "ss_backoff"})
            ~> (pc = "ss_loop" /\ InSsCall /\ LastCall.outcome /= "pending")

\* a call that was answered 429 three times, after sleeps of 2 s and 4 s, has returned
\* the empty list
C12_Witness ==
    /\ InSsCall
    /\ pc = "ss_loop"
    /\ reqlog = <<Request("ss"), Response("429"), Sleep(2000),
                  Request("ss"), Response("429"), Sleep(4000),
                  Request("ss"), Response("429")>>
    /\ LastCall.outcome = "failed"
    /\ result = <<>>

CallsOnly == SelectSeq(calls, LAMBDA c : c.kind = "call")
QueryIndex(q) == CHOOSE i \in DOMAIN queries : queries[i] = q
RECURSIVE Concat(_)
Concat(cs) == IF cs = <<>> THEN <<>> ELSE cs[1].returned \o Concat(Tail(cs))
\* call c comes before call d in backend-then-query order
CallOrder(c, d) ==
    \/ c.backend = "semantic_scholar" /\ d.backend = "pubmed"
    \/ c.backend = d.backend /\ QueryIndex(c.query) < QueryIndex(d.query)

\* C15: search_all has at most one backend request in flight; its calls are made in
\* backend-then-query order, every Semantic Scholar query before any PubMed query; and the
\* list it builds is the concatenation of the calls' results in that order.
C15_SequentialInOrder ==
    /\ inflight <= 1
    /\ \A a, b \in DOMAIN CallsOnly : a < b => CallOrder(CallsOnly[a], CallsOnly[b])
    /\ papers = Concat(CallsOnly)

\* two queries, both backends, every call returned one record: four records in order
C15_Witness ==
    /\ pc = "search_done"
    /\ Len(CallsOnly) = 4
    /\ \A k \in 1..4 : CallsOnly[k].outcome = "ok" /\ Len(CallsOnly[k].returned) = 1
    /\ Len(papers) = 4
    /\ papers[1].semantic_scholar_id = <<"q1", 1>>
    /\ papers[2].semantic_scholar_id = <<"q2", 1>>
    /\ papers[3].url = <<"q1", 1>>
    /\ papers[4].url = <<"q2", 1>>

CallsOf(backend, q) ==
    {k \in DOMAIN CallsOnly : CallsOnly[k].backend = backend /\ CallsOnly[k].query = q}
\* record p was parsed by backend call c
FromCall(p, c) ==
    /\ p.source = c.backend
    /\ IF c.backend = "pubmed" THEN p.url[1] = c.query ELSE p.semantic_scholar_id[1] = c.query
InPapers(p) == \E k \in DOMAIN papers : papers[k] = p

\* C16: in search_all no query is sent to a backend twice; when search_all returns, every
\* query has been sent once to Semantic Scholar, and once to PubMed exactly when the field
\* names a biomedical field, whatever calls failed; a failed call has no record in the
\* result; every record of a successful call is in the result.
C16_FailuresDoNotAbort ==
    /\ \A q \in {queries[i] : i \in DOMAIN queries} :
           /\ Cardinality(CallsOf("semantic_scholar", q)) <= 1
           /\ Cardinality(CallsOf("pubmed", q)) <= 1
           /\ pc = "search_done" =>
                  /\ Cardinality(CallsOf("semantic_scholar", q)) = 1
                  /\ Cardinality(CallsOf("pubmed", q)) = IF include_pubmed(field) THEN 1 ELSE 0
    /\ \A k \in DOMAIN CallsOnly :
           IF CallsOnly[k].outcome = "ok"
           THEN \A j \in DOMAIN CallsOnly[k].returned : InPapers(CallsOnly[k].returned[j])
           ELSE \A j \in DOMAIN papers : ~FromCall(papers[j], CallsOnly[k])

\* both backends failed on the first query (PubMed by raising) and answered the second
C16_Witness ==
    /\ pc = "search_done"
    /\ Len(CallsOnly) = 4
    /\ CallsOnly[1].outcome = "failed"
    /\ CallsOnly[2].outcome = "ok"
    /\ CallsOnly[3].outcome = "raised"
    /\ CallsOnly[4].outcome = "ok"
    /\ Len(papers) = 2
    /\ papers[1].semantic_scholar_id = <<"q2", 1>>
    /\ papers[2].url = <<"q2", 1>>

-----------------------------------------------------------------------------
(* get_papers and _run_pipeline: the claims *)

LastEvent == events[Len(events)]
IsTerminal(e) == e.type \in {"done", "error"}
IsFailureSignal(e) == e.type = "error" \/ (e.type = "http" /\ e.status /= 200)

\* C13: no caller receives a success with an empty record list: neither the 200 of
\* get_papers nor the papers event of _run_pipeline carries an empty list, and a request
\* whose search or ranking gave no record closes with an error.
C13_NoSilentlyEmptySuccess ==
    /\ \A k \in DOMAIN events :
           /\ events[k].type = "http" /\ events[k].status = 200 => events[k].papers /= <<>>
           /\ events[k].type = "papers" => events[k].papers /= <<>>
    /\ pc = "closed" /\ selected = <<>> /\ top_n = 10 /\ out = <<>> => IsFailureSignal(LastEvent)

\* the live object of id i after a step, where papers holds the records under way
SameObject(i, j) == papers[i].id = papers'[j].id
UnchangedFields(p, q) ==
    /\ p.title = q.title
    /\ p.authors = q.authors
    /\ p.year = q.year
    /\ p.abstract = q.abstract
    /\ p.citation_count = q.citation_count
    /\ p.influential_citation_count = q.influential_citation_count
    /\ p.venue = q.venue
    /\ p.semantic_scholar_id = q.semantic_scholar_id
    /\ p.doi = q.doi
    /\ p.url = q.url
    /\ p.source = q.source
\* quality_score is written by the ranking step only, pdf_text by the step that ends the
\* downloads only, and only where there was none
DerivedFieldsWrittenOnce(p, q) ==
    /\ p.quality_score /= q.quality_score => pc = "rank_stage"
    /\ p.pdf_text /= q.pdf_text => pc = "downloads" /\ p.pdf_text = None
\* the PDF URL and the open-access flag are written by the Unpaywall step only, together,
\* on a record that had a DOI and no URL
LocatorFillsMissingUrl(p, q) ==
    p.pdf_url /= q.pdf_url \/ p.is_open_access /= q.is_open_access =>
        /\ pc = "lookups"
        /\ ~Truthy(p.pdf_url)
        /\ Truthy(p.doi)
        /\ Truthy(q.pdf_url)
        /\ q.is_open_access

\* C14 as stated: no step of a request changes a discovery field of a record, the
\* open-access flag and the PDF URL included; quality_score and pdf_text are written once.
C14_DiscoveryFieldsFrozen ==
    [][\A i \in DOMAIN papers, j \in DOMAIN papers' :
           SameObject(i, j) =>
               /\ UnchangedFields(papers[i], papers'[j])
               /\ papers[i].pdf_url = papers'[j].pdf_url
               /\ papers[i].is_open_access = papers'[j].is_open_access
               /\ DerivedFieldsWrittenOnce(papers[i], papers'[j])]_vars

\* C14: no step of a request changes title, authors, year, abstract, the citation counts,
\* venue, identifiers or provenance of a record; the PDF URL and the open-access flag are
\* changed by the Unpaywall step only, together, on a record with a DOI and no URL;
\* quality_score is written by the ranking step only and pdf_text by the enrichment only.
C14_OnlyLocatorRankerEnricherWrite ==
    [][\A i \in DOMAIN papers, j \in DOMAIN papers' :
           SameObject(i, j) =>
               /\ UnchangedFields(papers[i], papers'[j])
               /\ LocatorFillsMissingUrl(papers[i], papers'[j])
               /\ DerivedFieldsWrittenOnce(papers[i], papers'[j])]_vars

\* a ranked record whose URL came from Unpaywall and whose text was then extracted
C14_Witness ==
    /\ endpoint = "generate"
    /\ pc = "enrich_done"
    /\ \E k \in DOMAIN papers :
           /\ papers[k].quality_score > 0
           /\ papers[k].doi = Doi1
           /\ papers[k].pdf_url = FoundUrl
           /\ papers[k].is_open_access
           /\ papers[k].pdf_text = PdfText

\* C17: once the enrichment step of _run_pipeline has chosen its candidates, every
\* top record that had a DOI and no PDF URL has been looked up, and one whose lookup
\* gave a URL carries the URL and the open-access flag and is a candidate.
C17_TopRecordsLookedUp ==
    endpoint = "generate" /\ pc \in {"downloads", "enrich_done"} =>
        \A k \in DOMAIN out :
            ~Truthy(out[k].pdf_url) /\ Truthy(out[k].doi) =>
                /\ k \in DOMAIN lookups
                /\ lookups[k] /= Pending
                /\ lookups[k] = FoundUrl =>
                       /\ papers[k].pdf_url = FoundUrl
                       /\ papers[k].is_open_access
                       /\ k \in DOMAIN results

\* C19: in the event stream of _run_pipeline a "done" or "error" event is the last event,
\* so there is at most one and nothing follows it; a run that has ended has one; "done"
\* comes after a "papers" event; and no "papers" event carries an empty list.
C19_OneTerminalEventLast ==
    endpoint = "generate" /\ events /= <<>> /\ events[1].type /= "http" =>
        /\ \A k \in DOMAIN events : IsTerminal(events[k]) => k = Len(events)
        /\ pc = "closed" <=> IsTerminal(LastEvent)
        /\ \A k \in DOMAIN events :
               events[k].type = "done" => \E j \in 1..(k - 1) : events[j].type = "papers"
        /\ \A k \in DOMAIN events : events[k].type = "papers" => events[k].papers /= <<>>

\* a run of search, ranking, papers event and one primer chunk that ended with "done"
C19_Witness ==
    /\ endpoint = "generate"
    /\ pc = "closed"
    /\ selected = <<>>
    /\ LastEvent = DoneEvent
    /\ \E k \in DOMAIN events : events[k] = ChunkEvent
    /\ \E k \in DOMAIN events : events[k].type = "papers" /\ Len(events[k].papers) = 2

-----------------------------------------------------------------------------
(* filter_and_rank under permutation: the claim *)

\* the records of a list as values, without the identity of the objects
Values(ps) == [k \in DOMAIN ps |-> [ps[k] EXCEPT !.id = 0]]
Duplicates(p, q) ==
    \/ Truthy(p.doi) /\ p.doi = q.doi
    \/ NormalizeTitle(p.title) = NormalizeTitle(q.title)
\* among the records that pass the abstract and phrase filters no two are duplicates of
\* each other and no two have the same score
DistinctKeysAndScores ==
    \A eligible \in {Eligible(papers, required)} :
        \A a, b \in DOMAIN eligible :
            a /= b => /\ ~Duplicates(eligible[a], eligible[b])
                      /\ ScorePaper(eligible[a]) /= ScorePaper(eligible[b])

\* C18 as stated: filter_and_rank returns the same ranked list for a list and for any
\* permutation of it.
C18_OrderIndependent == pc = "perm_done" => Values(out) = Values(out2)

\* C18: filter_and_rank returns the same ranked list for a list and for any permutation
\* of it when no two eligible records share a DOI or a normalised title and no two have
\* the same score.
C18_OrderIndependentWithoutTies ==
    pc = "perm_done" /\ DistinctKeysAndScores => Values(out) = Values(out2)

\* three eligible records handed over in two different orders, ranked alike
C18_Witness ==
    /\ pc = "perm_done"
    /\ DistinctKeysAndScores
    /\ Len(out) = 3
    /\ Ids(permuted) /= Ids(papers)
    /\ Ids(out) /= Ids(papers)
    /\ Ids(out) /= Ids(permuted)
    /\ out = out2

====
